---- MODULE Spec2Model ----
(***************************************************************************)
(* Model of audiopus' validated-conversion layer (src/lib.rs): the six     *)
(* closed-domain enumerations with their raw-integer conversions, the      *)
(* MutSignals buffer guard, and version().                                 *)
(*                                                                         *)
(* Integer widths.  An i32 is an Int in [I32Min, I32Max].  A u32 is kept   *)
(* as two 16-bit limbs <<hi, lo>> and a usize as a record [hi, lo] with    *)
(* lo the low 16 bits, so that the casts `as u32`, `as usize` and `as i32` *)
(* are computed bit-exactly.                                               *)
(***************************************************************************)
EXTENDS Integers, Sequences, FiniteSets, TLC

\* op      the operation that ran last
\* inRaw   its raw i32 argument          inVal    its enum-value argument
\* inLen   its buffer-length argument    inBytes  the native version string
\* res     its Result                    outRaw   its i32 return value
\* outBool its bool return value
\* guard   <<len>> while a MutSignals guard over a slice of len elements is
\*         held, <<>> otherwise
VARIABLES op, inRaw, inVal, inLen, inBytes, res, outRaw, outBool, guard

vars == <<op, inRaw, inVal, inLen, inBytes, res, outRaw, outBool, guard>>

(***************************************************************************)
(* Bounds of the exploration.                                              *)
(***************************************************************************)
\* raw integers and lengths are drawn from windows of this radius around
\* the values the code distinguishes
Radius == 1
\* longest native version string explored (bytes before the NUL)
MaxVersionLen == 2

(***************************************************************************)
(* Machine integers.                                                       *)
(***************************************************************************)
Limb == 65536
HalfLimb == 32768
I32Max == 2147483647
I32Min == (0 - I32Max) - 1

\* variant: the cast keeps 16 bits only
I32AsU32_narrow(x) == <<0, x % Limb>>

\* `x as u32` for an i32 x: x mod 2^32, as limbs
I32AsU32(x) == <<(x \div Limb) % Limb, x % Limb>>

\* `x as i32` for a u32 x: the same 32 bits read as two's complement
U32AsI32(u) ==
    IF u[1] >= HalfLimb THEN (u[1] - Limb) * Limb + u[2]
    ELSE u[1] * Limb + u[2]

\* a u32 literal
U32(n) == <<n \div Limb, n % Limb>>

\* a usize from its high part and a (possibly out of range) low part
Usize(hi, lo) == [hi |-> hi + (lo \div Limb), lo |-> lo % Limb]

\* `x as usize` for a non-negative i32 x
I32AsUsize(x) == Usize(0, x)

\* a > b on usize
UsizeGt(a, b) == a.hi > b.hi \/ (a.hi = b.hi /\ a.lo > b.lo)

\* `n as i32` for a usize n: the low 32 bits read as two's complement
UsizeAsI32(n) == U32AsI32(<<n.hi % Limb, n.lo>>)

(***************************************************************************)
(* Native constants (audiopus_sys bindings of opus_defines.h).  OPUS_AUTO  *)
(* and OPUS_BITRATE_MAX are negative and bound as i32, the others are      *)
(* bound as u32.                                                           *)
(***************************************************************************)
OPUS_AUTO == 0 - 1000
OPUS_BITRATE_MAX == 0 - 1
OPUS_SIGNAL_VOICE == U32(3001)
OPUS_SIGNAL_MUSIC == U32(3002)
OPUS_APPLICATION_VOIP == U32(2048)
OPUS_APPLICATION_AUDIO == U32(2049)
OPUS_APPLICATION_RESTRICTED_LOWDELAY == U32(2051)
OPUS_BANDWIDTH_NARROWBAND == U32(1101)
OPUS_BANDWIDTH_MEDIUMBAND == U32(1102)
OPUS_BANDWIDTH_WIDEBAND == U32(1103)
OPUS_BANDWIDTH_SUPERWIDEBAND == U32(1104)
OPUS_BANDWIDTH_FULLBAND == U32(1105)

FFI_OPUS_SIGNAL_VOICE == U32AsI32(OPUS_SIGNAL_VOICE)
FFI_OPUS_SIGNAL_MUSIC == U32AsI32(OPUS_SIGNAL_MUSIC)

(***************************************************************************)
(* Values.  An enum value is [ty, variant, fields]; a Result is            *)
(* [tag, val] with tag "Ok" or "Err".                                      *)
(***************************************************************************)
V(ty, variant) == [ty |-> ty, variant |-> variant, fields |-> <<>>]
V1(ty, variant, x) == [ty |-> ty, variant |-> variant, fields |-> <<x>>]
Ok(v) == [tag |-> "Ok", val |-> v]
Err(e) == [tag |-> "Err", val |-> e]
Error(variant) == V("Error", variant)
Error1(variant, x) == V1("Error", variant, x)

NoVal == V("none", "none")
NoRes == [tag |-> "none", val |-> NoVal]

(***************************************************************************)
(* Signal                                                                  *)
(***************************************************************************)
SignalVariants == {"Auto", "Voice", "Music"}

\* the declared discriminant, `v as i32`
Signal_as_i32(v) ==
    CASE v.variant = "Auto" -> OPUS_AUTO
      [] v.variant = "Voice" -> FFI_OPUS_SIGNAL_VOICE
      [] v.variant = "Music" -> FFI_OPUS_SIGNAL_MUSIC

Signal_try_from(value) ==
    IF value = OPUS_AUTO THEN Ok(V("Signal", "Auto"))
    ELSE IF value = FFI_OPUS_SIGNAL_VOICE THEN Ok(V("Signal", "Voice"))
    ELSE IF value = FFI_OPUS_SIGNAL_MUSIC THEN Ok(V("Signal", "Music"))
    ELSE Err(Error1("InvalidSignal", value))

(***************************************************************************)
(* Bitrate                                                                 *)
(***************************************************************************)
\* variant: the two sentinels exchanged
Bitrate_into_i32_swapped(bitrate) ==
    CASE bitrate.variant = "Auto" -> OPUS_BITRATE_MAX
      [] bitrate.variant = "Max" -> OPUS_AUTO
      [] bitrate.variant = "BitsPerSecond" -> bitrate.fields[1]

\* impl From<Bitrate> for i32
Bitrate_into_i32(bitrate) ==
    CASE bitrate.variant = "Auto" -> OPUS_AUTO
      [] bitrate.variant = "Max" -> OPUS_BITRATE_MAX
      [] bitrate.variant = "BitsPerSecond" -> bitrate.fields[1]

\* variant: zero counts as positive
is_positive_or_zero(x) == x >= 0

\* i32::is_positive
is_positive(x) == x > 0

Bitrate_try_from(value) ==
    IF value = OPUS_AUTO THEN Ok(V("Bitrate", "Auto"))
    ELSE IF value = OPUS_BITRATE_MAX THEN Ok(V("Bitrate", "Max"))
    ELSE IF is_positive(value) THEN Ok(V1("Bitrate", "BitsPerSecond", value))
    ELSE Err(Error1("InvalidBandwidth", value))

(***************************************************************************)
(* SampleRate                                                              *)
(***************************************************************************)
SampleRateVariants == {"Hz8000", "Hz12000", "Hz16000", "Hz24000", "Hz48000"}

SampleRate_as_i32(v) ==
    CASE v.variant = "Hz8000" -> 8000
      [] v.variant = "Hz12000" -> 12000
      [] v.variant = "Hz16000" -> 16000
      [] v.variant = "Hz24000" -> 24000
      [] v.variant = "Hz48000" -> 48000

\* variant: the error does not carry the rejected value
SampleRate_try_from_zeroed(value) ==
    IF value = 8000 THEN Ok(V("SampleRate", "Hz8000"))
    ELSE IF value = 12000 THEN Ok(V("SampleRate", "Hz12000"))
    ELSE IF value = 16000 THEN Ok(V("SampleRate", "Hz16000"))
    ELSE IF value = 24000 THEN Ok(V("SampleRate", "Hz24000"))
    ELSE IF value = 48000 THEN Ok(V("SampleRate", "Hz48000"))
    ELSE Err(Error1("InvalidSampleRate", 0))

SampleRate_try_from(value) ==
    IF value = 8000 THEN Ok(V("SampleRate", "Hz8000"))
    ELSE IF value = 12000 THEN Ok(V("SampleRate", "Hz12000"))
    ELSE IF value = 16000 THEN Ok(V("SampleRate", "Hz16000"))
    ELSE IF value = 24000 THEN Ok(V("SampleRate", "Hz24000"))
    ELSE IF value = 48000 THEN Ok(V("SampleRate", "Hz48000"))
    ELSE Err(Error1("InvalidSampleRate", value))

(***************************************************************************)
(* Application                                                             *)
(***************************************************************************)
ApplicationVariants == {"Voip", "Audio", "LowDelay"}

\* variant: LowDelay declared with the unused code 2050
Application_as_i32_2050(v) ==
    CASE v.variant = "Voip" -> 2048
      [] v.variant = "Audio" -> 2049
      [] v.variant = "LowDelay" -> 2050

Application_as_i32(v) ==
    CASE v.variant = "Voip" -> 2048
      [] v.variant = "Audio" -> 2049
      [] v.variant = "LowDelay" -> 2051

\* the match is on `value as _`, a u32
Application_try_from(value) ==
    LET u == I32AsU32(value) IN
    IF u = OPUS_APPLICATION_VOIP THEN Ok(V("Application", "Voip"))
    ELSE IF u = OPUS_APPLICATION_AUDIO THEN Ok(V("Application", "Audio"))
    ELSE IF u = OPUS_APPLICATION_RESTRICTED_LOWDELAY
         THEN Ok(V("Application", "LowDelay"))
    ELSE Err(Error("InvalidApplication"))

(***************************************************************************)
(* Channels                                                                *)
(***************************************************************************)
ChannelsVariants == {"Auto", "Mono", "Stereo"}

Channels_as_i32(v) ==
    CASE v.variant = "Auto" -> OPUS_AUTO
      [] v.variant = "Mono" -> 1
      [] v.variant = "Stereo" -> 2

\* impl From<Channels> for i32
Channels_into_i32(channels) == Channels_as_i32(channels)

is_mono(self) == IF self.variant = "Mono" THEN TRUE ELSE FALSE

\* variant: everything that is not Mono answers stereo
is_stereo_not_mono(self) == IF self.variant = "Mono" THEN FALSE ELSE TRUE

is_stereo(self) == IF self.variant = "Stereo" THEN TRUE ELSE FALSE

Channels_try_from(value) ==
    IF value = OPUS_AUTO THEN Ok(V("Channels", "Auto"))
    ELSE IF value = 1 THEN Ok(V("Channels", "Mono"))
    ELSE IF value = 2 THEN Ok(V("Channels", "Stereo"))
    ELSE Err(Error1("InvalidChannels", value))

(***************************************************************************)
(* Bandwidth                                                               *)
(***************************************************************************)
BandwidthVariants ==
    {"Auto", "Narrowband", "Mediumband", "Wideband", "Superwideband",
     "Fullband"}

Bandwidth_as_i32(v) ==
    CASE v.variant = "Auto" -> OPUS_AUTO
      [] v.variant = "Narrowband" -> U32AsI32(OPUS_BANDWIDTH_NARROWBAND)
      [] v.variant = "Mediumband" -> U32AsI32(OPUS_BANDWIDTH_MEDIUMBAND)
      [] v.variant = "Wideband" -> U32AsI32(OPUS_BANDWIDTH_WIDEBAND)
      [] v.variant = "Superwideband" -> U32AsI32(OPUS_BANDWIDTH_SUPERWIDEBAND)
      [] v.variant = "Fullband" -> U32AsI32(OPUS_BANDWIDTH_FULLBAND)

\* the sentinel is compared as i32 first, the ladder on `value as _`, a u32
Bandwidth_try_from(value) ==
    IF value = OPUS_AUTO THEN Ok(V("Bandwidth", "Auto"))
    ELSE LET u == I32AsU32(value) IN
         IF u = OPUS_BANDWIDTH_NARROWBAND THEN Ok(V("Bandwidth", "Narrowband"))
         ELSE IF u = OPUS_BANDWIDTH_MEDIUMBAND
              THEN Ok(V("Bandwidth", "Mediumband"))
         ELSE IF u = OPUS_BANDWIDTH_WIDEBAND THEN Ok(V("Bandwidth", "Wideband"))
         ELSE IF u = OPUS_BANDWIDTH_SUPERWIDEBAND
              THEN Ok(V("Bandwidth", "Superwideband"))
         ELSE IF u = OPUS_BANDWIDTH_FULLBAND THEN Ok(V("Bandwidth", "Fullband"))
         ELSE Err(Error1("InvalidBandwidth", value))

(***************************************************************************)
(* MutSignals: the guard is represented by the length of the slice it      *)
(* borrows.                                                                *)
(***************************************************************************)
\* variant: a length of exactly i32::MAX is rejected too
MutSignals_try_from_ge(len) ==
    IF ~UsizeGt(I32AsUsize(I32Max), len) THEN Err(Error("SignalsTooLarge"))
    ELSE Ok(V1("MutSignals", "MutSignals", len))

\* variant: the length is checked against u32::MAX
MutSignals_try_from_u32(len) ==
    IF UsizeGt(len, Usize(Limb - 1, Limb - 1)) THEN Err(Error("SignalsTooLarge"))
    ELSE Ok(V1("MutSignals", "MutSignals", len))

\* impl TryFrom<&mut [T]> for MutSignals
MutSignals_try_from(len) ==
    IF UsizeGt(len, I32AsUsize(I32Max)) THEN Err(Error("SignalsTooLarge"))
    ELSE Ok(V1("MutSignals", "MutSignals", len))

\* Vec::as_mut_slice: the slice of all the vector's elements
as_mut_slice(vecLen) == vecLen

\* impl TryFrom<&mut Vec<T>> for MutSignals
MutSignals_try_from_vec(vecLen) == MutSignals_try_from(as_mut_slice(vecLen))

\* MutSignals::i32_len, on the guard's slice length
i32_len(selfLen) == UsizeAsI32(selfLen)

(***************************************************************************)
(* version(): CStr::to_str is a UTF-8 validation of the bytes before the   *)
(* NUL; unwrap panics on its Err.                                          *)
(***************************************************************************)
IsCont(b) == b >= 128 /\ b <= 191

RECURSIVE Utf8Valid(_)
Utf8Valid(bytes) ==
    IF bytes = <<>> THEN TRUE
    ELSE LET b == bytes[1]
             n == Len(bytes)
             need == IF b < 128 THEN 1
                     ELSE IF b >= 194 /\ b <= 223 THEN 2
                     ELSE IF b >= 224 /\ b <= 239 THEN 3
                     ELSE IF b >= 240 /\ b <= 244 THEN 4
                     ELSE 0
         IN  /\ need > 0
             /\ n >= need
             /\ \A i \in 2..need : IsCont(bytes[i])
             /\ (b = 224 => bytes[2] >= 160)
             /\ (b = 237 => bytes[2] <= 159)
             /\ (b = 240 => bytes[2] >= 144)
             /\ (b = 244 => bytes[2] <= 143)
             /\ Utf8Valid(SubSeq(bytes, need + 1, n))

Str(bytes) == [tag |-> "Ok", val |-> V1("str", "str", bytes)]
Panic == [tag |-> "Panic", val |-> V("Utf8Error", "unwrap")]

\* version() on the bytes opus_get_version_string points at
version(bytes) == IF Utf8Valid(bytes) THEN Str(bytes) ELSE Panic

(***************************************************************************)
(* Inputs.                                                                 *)
(***************************************************************************)
\* the raw values the conversions distinguish, and some they must reject
RawCentres ==
    {I32Min, OPUS_AUTO, OPUS_BITRATE_MAX, 1, 1103, 2049, 2051, 3001, 8000,
     9999, 12000, 16000, 24000, 44100, 48000, Limb + 2048, Limb + 1101,
     (0 - Limb) + 2048, I32Max}

Window(c) ==
    LET lo == IF c < I32Min + Radius THEN I32Min - c ELSE 0 - Radius
        hi == IF c > I32Max - Radius THEN I32Max - c ELSE Radius
    IN  {c + d : d \in lo..hi}

Raws == UNION {Window(c) : c \in RawCentres}

\* buffer lengths around 0, i32::MAX, u32::MAX and 3 * 2^31
LenCentres == {<<0, 0>>, <<HalfLimb - 1, Limb - 1>>, <<Limb, 0>>,
               <<Limb + HalfLimb, 0>>}

Lens ==
    {n \in {Usize(c[1], c[2] + d) : c \in LenCentres, d \in (0 - Radius)..Radius} :
        n.hi >= 0}

FixedValues ==
    {V("Signal", x) : x \in SignalVariants}
    \cup {V("SampleRate", x) : x \in SampleRateVariants}
    \cup {V("Application", x) : x \in ApplicationVariants}
    \cup {V("Channels", x) : x \in ChannelsVariants}
    \cup {V("Bandwidth", x) : x \in BandwidthVariants}

ChannelsValues == {V("Channels", x) : x \in ChannelsVariants}

\* BitsPerSecond is a public tuple variant: any i32 can be put in it
BitrateValues ==
    {V("Bitrate", "Auto"), V("Bitrate", "Max")}
    \cup {V1("Bitrate", "BitsPerSecond", b) : b \in Raws}

\* 'l', the two bytes of U+00E9, and a byte no UTF-8 text contains
VersionBytes == {108, 195, 169, 255}

VersionStrings ==
    UNION {[1..n -> VersionBytes] : n \in 0..MaxVersionLen}

\* `v as i32` of a #[repr(i32)] enum value
as_i32(v) ==
    CASE v.ty = "Signal" -> Signal_as_i32(v)
      [] v.ty = "SampleRate" -> SampleRate_as_i32(v)
      [] v.ty = "Application" -> Application_as_i32(v)
      [] v.ty = "Channels" -> Channels_as_i32(v)
      [] v.ty = "Bandwidth" -> Bandwidth_as_i32(v)

\* T::try_from(raw) by the name of T
try_from(ty, raw) ==
    CASE ty = "Signal" -> Signal_try_from(raw)
      [] ty = "Bitrate" -> Bitrate_try_from(raw)
      [] ty = "SampleRate" -> SampleRate_try_from(raw)
      [] ty = "Application" -> Application_try_from(raw)
      [] ty = "Channels" -> Channels_try_from(raw)
      [] ty = "Bandwidth" -> Bandwidth_try_from(raw)

EnumTypes ==
    {"Signal", "Bitrate", "SampleRate", "Application", "Channels", "Bandwidth"}

FixedTypes == EnumTypes \ {"Bitrate"}

(***************************************************************************)
(* The state machine: one action per public operation.                     *)
(***************************************************************************)
Zero == Usize(0, 0)

Init ==
    /\ op = "init"
    /\ inRaw = 0
    /\ inVal = NoVal
    /\ inLen = Zero
    /\ inBytes = <<>>
    /\ res = NoRes
    /\ outRaw = 0
    /\ outBool = FALSE
    /\ guard = <<>>

\* a conversion from a raw i32
RawCall(name, raw, r) ==
    /\ op' = name
    /\ inRaw' = raw
    /\ inVal' = NoVal
    /\ inLen' = Zero
    /\ inBytes' = <<>>
    /\ res' = r
    /\ outRaw' = 0
    /\ outBool' = FALSE
    /\ UNCHANGED guard

\* an operation on an enum value
ValCall(name, v, raw, b) ==
    /\ op' = name
    /\ inRaw' = 0
    /\ inVal' = v
    /\ inLen' = Zero
    /\ inBytes' = <<>>
    /\ res' = NoRes
    /\ outRaw' = raw
    /\ outBool' = b
    /\ UNCHANGED guard

\* the construction of a guard
LenCall(name, len, r) ==
    /\ op' = name
    /\ inRaw' = 0
    /\ inVal' = NoVal
    /\ inLen' = len
    /\ inBytes' = <<>>
    /\ res' = r
    /\ outRaw' = 0
    /\ outBool' = FALSE
    /\ guard' = IF r.tag = "Ok" THEN r.val.fields ELSE <<>>

SignalTryFrom == \E raw \in Raws : RawCall("Signal", raw, Signal_try_from(raw))

BitrateTryFrom ==
    \E raw \in Raws : RawCall("Bitrate", raw, Bitrate_try_from(raw))

SampleRateTryFrom ==
    \E raw \in Raws : RawCall("SampleRate", raw, SampleRate_try_from(raw))

ApplicationTryFrom ==
    \E raw \in Raws : RawCall("Application", raw, Application_try_from(raw))

ChannelsTryFrom ==
    \E raw \in Raws : RawCall("Channels", raw, Channels_try_from(raw))

BandwidthTryFrom ==
    \E raw \in Raws : RawCall("Bandwidth", raw, Bandwidth_try_from(raw))

BitrateIntoI32 ==
    \E v \in BitrateValues : ValCall("Bitrate::into", v, Bitrate_into_i32(v), FALSE)

ChannelsIntoI32 ==
    \E v \in ChannelsValues :
        ValCall("Channels::into", v, Channels_into_i32(v), FALSE)

EnumAsI32 == \E v \in FixedValues : ValCall("as_i32", v, as_i32(v), FALSE)

IsMono == \E v \in ChannelsValues : ValCall("is_mono", v, 0, is_mono(v))

IsStereo == \E v \in ChannelsValues : ValCall("is_stereo", v, 0, is_stereo(v))

MutSignalsTryFrom ==
    \E len \in Lens : LenCall("MutSignals", len, MutSignals_try_from(len))

MutSignalsTryFromVec ==
    \E len \in Lens :
        LenCall("MutSignals::vec", len, MutSignals_try_from_vec(len))

I32Len ==
    /\ guard # <<>>
    /\ op' = "i32_len"
    /\ inRaw' = 0
    /\ inVal' = NoVal
    /\ inLen' = guard[1]
    /\ inBytes' = <<>>
    /\ res' = NoRes
    /\ outRaw' = i32_len(guard[1])
    /\ outBool' = FALSE
    /\ UNCHANGED guard

Version ==
    \E bytes \in VersionStrings :
        /\ op' = "version"
        /\ inRaw' = 0
        /\ inVal' = NoVal
        /\ inLen' = Zero
        /\ inBytes' = bytes
        /\ res' = version(bytes)
        /\ outRaw' = 0
        /\ outBool' = FALSE
        /\ UNCHANGED guard

Next ==
    \/ SignalTryFrom
    \/ BitrateTryFrom
    \/ SampleRateTryFrom
    \/ ApplicationTryFrom
    \/ ChannelsTryFrom
    \/ BandwidthTryFrom
    \/ BitrateIntoI32
    \/ ChannelsIntoI32
    \/ EnumAsI32
    \/ IsMono
    \/ IsStereo
    \/ MutSignalsTryFrom
    \/ MutSignalsTryFromVec
    \/ I32Len
    \/ Version

Spec == Init /\ [][Next]_vars

(***************************************************************************)
(* Properties.                                                             *)
(***************************************************************************)
BitsPerSecond(b) == V1("Bitrate", "BitsPerSecond", b)

\* C1 as stated: after i32::from(v) of any Bitrate v, BitsPerSecond of any
\* i32 included, Bitrate::try_from of the raw value returns Ok(v).
C1_RoundTripEveryBitrate ==
    op = "Bitrate::into" => Bitrate_try_from(outRaw) = Ok(inVal)

\* C1 amended: after i32::from(v) of a Bitrate v that is Auto, Max or
\* BitsPerSecond(b) with b > 0, Bitrate::try_from of the raw value returns
\* Ok(v).
C1_RoundTripPositiveBitrate ==
    (/\ op = "Bitrate::into"
     /\ (inVal.variant = "BitsPerSecond" => inVal.fields[1] > 0))
    => Bitrate_try_from(outRaw) = Ok(inVal)

C1_Witness ==
    /\ op = "Bitrate::into"
    /\ inVal = BitsPerSecond(I32Max)
    /\ outRaw = I32Max
    /\ Bitrate_try_from(outRaw) = Ok(inVal)

\* C2: for every variant v of Signal, SampleRate, Application, Channels and
\* Bandwidth, try_from of v's raw code (v as i32, or i32::from for Channels)
\* returns Ok(v).
C2_FixedRoundTrip ==
    op \in {"as_i32", "Channels::into"} =>
        try_from(inVal.ty, outRaw) = Ok(inVal)

C2_Witness ==
    /\ op = "as_i32"
    /\ inVal = V("Application", "LowDelay")
    /\ outRaw = 2051
    /\ try_from("Application", outRaw) = Ok(inVal)

\* C3 as stated: whenever try_from(raw) fails, for any of the six
\* enumerations, the error's payload is the rejected raw value.
C3_ErrorCarriesRaw ==
    (op \in EnumTypes /\ res.tag = "Err") => res.val.fields = <<inRaw>>

\* C3 amended: whenever try_from(raw) fails for Signal, Bitrate, SampleRate,
\* Channels or Bandwidth the error's payload is the rejected raw value; a
\* failing Application::try_from returns InvalidApplication, which carries
\* no payload.
C3_ErrorCarriesRawButApplication ==
    (op \in EnumTypes /\ res.tag = "Err") =>
        IF op = "Application" THEN res.val = Error("InvalidApplication")
        ELSE res.val.fields = <<inRaw>>

C3_Witness ==
    /\ op = "SampleRate"
    /\ inRaw = 44100
    /\ res = Err(Error1("InvalidSampleRate", 44100))

\* C4: the error variant of a failing try_from determines the enumeration
\* that rejected the input: no other enumeration's failing conversion
\* produces the same variant.
C4_ErrorKindSpecific ==
    (op \in EnumTypes /\ res.tag = "Err") =>
        \A ty \in EnumTypes \ {op} : \A r \in Raws :
            LET o == try_from(ty, r)
            IN  o.tag = "Err" => o.val.variant # res.val.variant

\* C5: no operation panics: every operation returns a value, and version()
\* reports a version string that is not UTF-8 as an error value.
C5_NoPanic == res.tag # "Panic"

\* the fixed codes of each closed-domain enumeration
Codes(ty) ==
    CASE ty = "Signal" -> {OPUS_AUTO, 3001, 3002}
      [] ty = "SampleRate" -> {8000, 12000, 16000, 24000, 48000}
      [] ty = "Application" -> {2048, 2049, 2051}
      [] ty = "Channels" -> {OPUS_AUTO, 1, 2}
      [] ty = "Bandwidth" -> {OPUS_AUTO, 1101, 1102, 1103, 1104, 1105}

\* C6: for Signal, SampleRate, Application, Channels and Bandwidth,
\* try_from(raw) succeeds exactly when raw is one of the type's fixed codes,
\* negative raw values included, and then yields the variant of that type
\* whose code is raw.
C6_AcceptsExactlyCodes ==
    op \in FixedTypes =>
        /\ res.tag \in {"Ok", "Err"}
        /\ (res.tag = "Ok" <=> inRaw \in Codes(op))
        /\ (res.tag = "Ok" => res.val.ty = op /\ as_i32(res.val) = inRaw)

C6_Witness ==
    /\ op = "Application"
    /\ inRaw = (0 - Limb) + 2048
    /\ res.tag = "Err"

\* C7: Bitrate::try_from(raw) is Auto exactly for OPUS_AUTO, Max exactly for
\* OPUS_BITRATE_MAX, BitsPerSecond(raw) for every raw >= 1, an error for
\* zero and every other negative raw, and never BitsPerSecond(b) with b <= 0.
C7_BitrateTryFrom ==
    op = "Bitrate" =>
        /\ (res = Ok(V("Bitrate", "Auto")) <=> inRaw = OPUS_AUTO)
        /\ (res = Ok(V("Bitrate", "Max")) <=> inRaw = OPUS_BITRATE_MAX)
        /\ (inRaw >= 1 => res = Ok(BitsPerSecond(inRaw)))
        /\ ((inRaw <= 0 /\ inRaw \notin {OPUS_AUTO, OPUS_BITRATE_MAX})
                => res.tag = "Err")
        /\ ((res.tag = "Ok" /\ res.val.variant = "BitsPerSecond")
                => res.val.fields[1] > 0)

C7_Witness ==
    /\ op = "Bitrate"
    /\ inRaw = 0
    /\ res.tag = "Err"

\* C8: constructing a MutSignals from a slice succeeds exactly when the
\* length is at most i32::MAX (below 2^31), fails with SignalsTooLarge
\* otherwise, and constructing from a Vec gives the outcome of constructing
\* from its slice.
C8_MutSignalsBound ==
    op \in {"MutSignals", "MutSignals::vec"} =>
        /\ (res.tag = "Ok" <=> inLen.hi < HalfLimb)
        /\ (res.tag # "Ok" => res = Err(Error("SignalsTooLarge")))
        /\ (res.tag = "Ok" => guard = <<inLen>>)
        /\ (op = "MutSignals::vec" => res = MutSignals_try_from(inLen))

C8_Witness ==
    /\ op = "MutSignals::vec"
    /\ inLen = Usize(HalfLimb - 1, Limb - 1)
    /\ res.tag = "Ok"

\* C9: i32_len() of a constructed guard is the length of its buffer, a value
\* in [0, i32::MAX], and no guard is held over more than i32::MAX elements.
C9_I32LenExact ==
    /\ (guard # <<>> => guard[1].hi < HalfLimb)
    /\ (op = "i32_len" =>
            /\ guard = <<inLen>>
            /\ outRaw >= 0
            /\ I32AsUsize(outRaw) = inLen)

C9_Witness ==
    /\ op = "i32_len"
    /\ inLen = Usize(HalfLimb - 1, Limb - 1)
    /\ outRaw = I32Max

\* C10: is_mono() is true exactly for Mono and is_stereo() exactly for
\* Stereo, so Auto answers false to both and nothing answers true to both,
\* also for the values Channels::try_from returns for 1, 2 and OPUS_AUTO.
C10_ChannelPredicates ==
    /\ (op = "is_mono" => outBool = (inVal = V("Channels", "Mono")))
    /\ (op = "is_stereo" => outBool = (inVal = V("Channels", "Stereo")))
    /\ (op \in {"is_mono", "is_stereo"} =>
            ~(is_mono(inVal) /\ is_stereo(inVal)))
    /\ ((op = "Channels" /\ res.tag = "Ok") =>
            /\ (is_mono(res.val) <=> inRaw = 1)
            /\ (is_stereo(res.val) <=> inRaw = 2)
            /\ (inRaw = OPUS_AUTO =>
                    ~is_mono(res.val) /\ ~is_stereo(res.val)))

C10_Witness ==
    /\ op = "is_stereo"
    /\ inVal = V("Channels", "Auto")
    /\ outBool = FALSE

====
